---------------------------- MODULE Spec2Model ----------------------------
(***************************************************************************)
(* Model of src/project.c: the reflex-game round state machine             *)
(* (run_one_round) and the six-round loop of main.                         *)
(*                                                                         *)
(* One step of the model is one statement group of the C code; each        *)
(* polling loop advances one tick (one loop iteration) per step.           *)
(*                                                                         *)
(* visual_sensor_output is the hardware placeholder of the program.  Under *)
(* Spec its return value is an input of the round (any sensor behaviour,   *)
(* within the bounds below); under SpecStub it is the body at              *)
(* project.c:100-105, which returns 0 for every input.                     *)
(***************************************************************************)
EXTENDS Integers, Naturals, Sequences, FiniteSets, TLC

(* ---------------- System parameters (project.c:10-14) ---------------- *)
RANDOM_WAIT_MIN_MS == 1000
RANDOM_WAIT_MAX_MS == 3000
VISUAL_WINDOW_MS == 1200
TACTILE_WINDOW_MS == 1500
PRESSURE_THRESHOLD == 400

(* ---------------- sys_state_t (project.c:20-31) ---------------- *)
ST_IDLE == 0
ST_ARMED == 1
ST_STIM_ON == 2
ST_VIS_DONE == 3
ST_TACT_DONE == 4
ST_TACT_TIMEOUT == 5
ST_ABORT_RETRY == 6
ST_REPORT == 7
ST_FEEDBACK == 8

(* ---------------- uint32_t ---------------- *)
(* The totals and the best total are uint32_t values that reach 0xFFFFFFFF; *)
(* they are kept as two 16-bit halves, with the wrap-around of C addition. *)
(* The tick counters, times and the round index stay far below 2^31 (at    *)
(* most six rounds of at most 3000 + 1200 + 1500 ticks) and are plain      *)
(* integers.                                                               *)
U32Of(n) == [hi |-> (n \div 65536) % 65536, lo |-> n % 65536]

U32Add(a, b) ==
    LET lo == a.lo + b.lo
        hi == a.hi + b.hi + (lo \div 65536)
    IN  [hi |-> hi % 65536, lo |-> lo % 65536]

U32Less(a, b) == a.hi < b.hi \/ (a.hi = b.hi /\ a.lo < b.lo)

U32Leq(a, b) == a = b \/ U32Less(a, b)

(* project.c:38 : the initial best total 0xFFFFFFFF *)
UINT32_MAX == [hi |-> 65535, lo |-> 65535]

(* number of rounds main runs: for (g_round_ix = 1; g_round_ix <= 6; ...) *)
LAST_ROUND == 6

(* ---------------- Bounds of the model ---------------- *)
(* rand() is drawn from 0..MaxRand *)
MaxRand == 1
(* Under SpecWait rand() is drawn from RandSamples: 0..MaxRandWide (every  *)
(* offset of the span and the first wrap-around of the modulo) and the     *)
(* largest values rand() can give.                                         *)
MaxRandWide == 2001
(* Under Spec the visual sensor may fire, inside the visual window, on the *)
(* ticks 0..MaxFire of the window and on its last tick (and on any later   *)
(* tick, should the loop poll one); in the random wait it may fire on any  *)
(* tick.                                                                   *)
MaxFire == 1

VARIABLES
    pc,                 \* position in main / run_one_round
    hw,                 \* "any": sensor is an input; "stub": sensor as implemented
    g_state,
    g_difficulty,
    g_random_wait_ms,
    g_visual_ms,
    g_tactile_ms,
    g_best_total_ms,
    g_round_ix,
    g_time,
    g_score_improved,
    t,                  \* loop variable of the current polling loop
    visual_start_time,  \* local of run_one_round
    tactile_start_time, \* local of run_one_round
    total,              \* local of run_one_round
    uart,               \* last record sent by pi3_uart_send_result
    best_at_entry,      \* g_best_total_ms when run_one_round was called
    calls,              \* number of calls of run_one_round made by main
    wait_polls          \* sensor polls made by the wait loop of this round

globals == <<g_state, g_difficulty, g_random_wait_ms, g_visual_ms, g_tactile_ms,
             g_best_total_ms, g_round_ix, g_time, g_score_improved>>
locals == <<t, visual_start_time, tactile_start_time, total>>
vars == <<pc, hw, globals, locals, uart, best_at_entry, calls, wait_polls>>

(* ---------------- Pure helpers ---------------- *)

(* the random offset taken modulo the maximum instead of the span *)
pi1_compute_random_wait_ms_ModMax(difficulty_0_100, r) ==
    RANDOM_WAIT_MIN_MS + (r % (RANDOM_WAIT_MAX_MS + 1))

(* project.c:68-76 : RANDOM_WAIT_MIN_MS + rand() % (span + 1), r the value *)
(* of rand(); the difficulty is only printed                               *)
pi1_compute_random_wait_ms(difficulty_0_100, r) ==
    LET span == RANDOM_WAIT_MAX_MS - RANDOM_WAIT_MIN_MS
        random_offset == r % (span + 1)
    IN  RANDOM_WAIT_MIN_MS + random_offset

(* the sensor reporting a detection on every poll *)
visual_sensor_output_Fires(mock_time) == 1

(* project.c:100-105 : the stub returns 0 for every mock_time *)
visual_sensor_output(mock_time) == 0

(* the pot mock with the modulo applied to the whole sum *)
pi3_read_pot_difficulty_ModOfSum(ix) == ((30 + (ix * 7)) % 51) % 65536

(* project.c:126-132 : uint16_t d = 30 + (g_round_ix * 7) % 51 *)
pi3_read_pot_difficulty(ix) == (30 + ((ix * 7) % 51)) % 65536

(* the pressure mock without its forced timeout for rounds = 2 mod 5 *)
pi3_read_pressure_adc_NoTimeout(ix) == (300 + ((ix * 150) % 600)) % 65536

(* project.c:135-141 *)
pi3_read_pressure_adc(ix) ==
    IF ix % 5 = 2 THEN 200 ELSE (300 + ((ix * 150) % 600)) % 65536

(* What one call of visual_sensor_output may return while the program is   *)
(* in the random wait.                                                     *)
WaitSensorOutputs(mock_time) ==
    IF hw = "stub" THEN {visual_sensor_output(mock_time)} ELSE {0, 1}

(* What one call of visual_sensor_output may return inside the visual      *)
(* window, `elapsed` ticks after the window began.                         *)
VisualSensorOutputs(mock_time, elapsed) ==
    IF hw = "stub" THEN {visual_sensor_output(mock_time)}
    ELSE IF elapsed <= MaxFire \/ elapsed >= VISUAL_WINDOW_MS - 1 THEN {0, 1}
    ELSE {0}

(* the visual loop with a condition that never turns false *)
VisualLoopCond_Unbounded(tt, start) == tt >= start

(* the visual loop bounded by the tactile window (the wrong constant) *)
VisualLoopCond_TactileWindow(tt, start) == tt < start + TACTILE_WINDOW_MS

(* project.c:236 : t < visual_start_time + VISUAL_WINDOW_MS *)
VisualLoopCond(tt, start) == tt < start + VISUAL_WINDOW_MS

(* project.c:256 : t < tactile_start_time + TACTILE_WINDOW_MS *)
TactileLoopCond(tt, start) == tt < start + TACTILE_WINDOW_MS

(* project.c:240, 261 : elapsed = t - start *)
Elapsed(tt, start) == tt - start

(* the total with the visual time added twice *)
Total_VisualTwice(v, tac) == U32Add(U32Of(v), U32Of(v))

(* project.c:278 : uint32_t total = g_visual_ms + (g_tactile_ms) *)
Total(v, tac) == U32Add(U32Of(v), U32Of(tac))

(* the best total overwritten by every reported total *)
NewBest_Always(tot, best) == tot

(* project.c:279-280 : if (total < g_best_total_ms) g_best_total_ms = total *)
NewBest(tot, best) == IF U32Less(tot, best) THEN tot ELSE best

(* project.c:281 : g_score_improved = true, whatever the comparison gave *)
ScoreImproved(tot, best) == TRUE

(* the abort helper without its assignment to g_state *)
state_to_abort_KeepsState ==
    /\ g_state' = g_state
    /\ g_time' = 0

(* the abort helper entering ST_TACT_TIMEOUT instead of ST_ABORT_RETRY *)
state_to_abort_TactTimeout ==
    /\ g_state' = ST_TACT_TIMEOUT
    /\ g_time' = 0

(* project.c:190-195 *)
state_to_abort ==
    /\ g_state' = ST_ABORT_RETRY
    /\ g_time' = 0

(* project.c:185-189 *)
state_to_idle == g_state' = ST_IDLE

(* the feedback helper calling state_to_idle *)
state_to_feedback_Idle == state_to_idle

(* project.c:196-200 *)
state_to_feedback == g_state' = ST_FEEDBACK

(* return from run_one_round: its locals go out of scope *)
Return ==
    /\ pc' = "returned"
    /\ t' = 0
    /\ visual_start_time' = 0
    /\ tactile_start_time' = 0
    /\ total' = U32Of(0)
    /\ wait_polls' = 0

(* ---------------- Initial states ---------------- *)

(* project.c:33-41 : the globals as initialised, before main runs *)
InitGlobals ==
    /\ pc = "start"
    /\ g_state = ST_IDLE
    /\ g_difficulty = 50
    /\ g_random_wait_ms = 0
    /\ g_visual_ms = 0
    /\ g_tactile_ms = 0
    /\ g_best_total_ms = UINT32_MAX
    /\ g_round_ix = 0
    /\ g_time = 0
    /\ g_score_improved = FALSE
    /\ t = 0
    /\ visual_start_time = 0
    /\ tactile_start_time = 0
    /\ total = U32Of(0)
    /\ uart = [rnd |-> 0, wait_ms |-> 0, vis_ms |-> 0, tact_ms |-> 0,
               total_ms |-> U32Of(0), best_ms |-> U32Of(0)]
    /\ best_at_entry = UINT32_MAX
    /\ calls = 0
    /\ wait_polls = 0

Init == InitGlobals /\ hw = "any"

InitStub == InitGlobals /\ hw = "stub"

(* ---------------- main (project.c:297-313) ---------------- *)

(* the round loop started at index 0 *)
MainBegin_FromZero ==
    /\ pc = "start"
    /\ g_round_ix' = 0
    /\ pc' = "loop"
    /\ UNCHANGED <<hw, calls, wait_polls,
                   g_state, g_difficulty, g_random_wait_ms, g_visual_ms,
                   g_tactile_ms, g_best_total_ms, g_time, g_score_improved,
                   locals, uart, best_at_entry>>

(* project.c:305 : for (g_round_ix = 1; ...) *)
MainBegin ==
    /\ pc = "start"
    /\ g_round_ix' = 1
    /\ pc' = "loop"
    /\ UNCHANGED <<hw, calls, wait_polls,
                   g_state, g_difficulty, g_random_wait_ms, g_visual_ms,
                   g_tactile_ms, g_best_total_ms, g_time, g_score_improved,
                   locals, uart, best_at_entry>>

(* project.c:305-308 : g_round_ix <= 6, call run_one_round *)
MainCall ==
    /\ pc = "loop"
    /\ g_round_ix <= LAST_ROUND
    /\ pc' = "round"
    /\ best_at_entry' = g_best_total_ms
    /\ calls' = calls + 1
    /\ UNCHANGED <<hw, wait_polls, globals, locals, uart>>

(* project.c:305 : ++g_round_ix after run_one_round returned *)
MainNext ==
    /\ pc = "returned"
    /\ g_round_ix' = g_round_ix + 1
    /\ pc' = "loop"
    /\ UNCHANGED <<hw, calls, wait_polls,
                   g_state, g_difficulty, g_random_wait_ms, g_visual_ms,
                   g_tactile_ms, g_best_total_ms, g_time, g_score_improved,
                   locals, uart, best_at_entry>>

(* project.c:305, 311-312 : loop condition false, print best, return 0 *)
MainExit ==
    /\ pc = "loop"
    /\ ~(g_round_ix <= LAST_ROUND)
    /\ pc' = "done"
    /\ UNCHANGED <<hw, calls, wait_polls, globals, locals, uart, best_at_entry>>

(* ---------------- run_one_round (project.c:205-292) ---------------- *)

(* project.c:208-210 : state_to_idle(); pi1_button_pressed() returns 1 *)
StateToIdle ==
    /\ pc = "round"
    /\ state_to_idle
    /\ pc' = "idle"
    /\ UNCHANGED <<hw, calls, wait_polls,
                   g_difficulty, g_random_wait_ms, g_visual_ms, g_tactile_ms,
                   g_best_total_ms, g_round_ix, g_time, g_score_improved,
                   locals, uart, best_at_entry>>

(* project.c:213-220 : read pot, ARMED, choose the wait, int t = g_time;    *)
(* rand() returns a value of the set R                                     *)
ArmWith(R) ==
    /\ pc = "idle"
    /\ g_difficulty' = pi3_read_pot_difficulty(g_round_ix)
    /\ \E r \in R :
          g_random_wait_ms' = pi1_compute_random_wait_ms(g_difficulty', r)
    /\ g_state' = ST_ARMED
    /\ t' = g_time
    /\ pc' = "wait"
    /\ wait_polls' = 0
    /\ UNCHANGED <<hw, calls,
                   g_visual_ms, g_tactile_ms, g_best_total_ms, g_round_ix,
                   g_time, g_score_improved, visual_start_time,
                   tactile_start_time, total, uart, best_at_entry>>

Arm == ArmWith(0..MaxRand)

(* RAND_MAX of the C library: rand() returns a value of 0..RAND_MAX *)
RAND_MAX == 2147483647

RandSamples == (0..MaxRandWide) \cup {32767, RAND_MAX - 1, RAND_MAX}

ArmWide == ArmWith(RandSamples)

(* project.c:220-228 : one iteration of the wait loop, sensor silent *)
WaitTick ==
    /\ pc = "wait"
    /\ t < g_random_wait_ms
    /\ 0 \in WaitSensorOutputs(t)
    /\ g_time' = t
    /\ t' = t + 1
    /\ wait_polls' = wait_polls + 1
    /\ UNCHANGED <<pc, hw, calls,
                   g_state, g_difficulty, g_random_wait_ms, g_visual_ms,
                   g_tactile_ms, g_best_total_ms, g_round_ix, g_score_improved,
                   visual_start_time, tactile_start_time, total, uart,
                   best_at_entry>>

(* the early-hand branch without its return: the abort falls through to   *)
(* STIM_ON and the visual loop                                            *)
FalseStart_NoReturn ==
    /\ pc = "wait"
    /\ t < g_random_wait_ms
    /\ \E out \in WaitSensorOutputs(t) : out # 0
    /\ g_state' = ST_STIM_ON
    /\ g_time' = 0
    /\ visual_start_time' = 0
    /\ t' = 0
    /\ pc' = "vis"
    /\ wait_polls' = wait_polls + 1
    /\ UNCHANGED <<hw, calls,
                   g_difficulty, g_random_wait_ms, g_visual_ms, g_tactile_ms,
                   g_best_total_ms, g_round_ix, g_score_improved,
                   tactile_start_time, total, uart, best_at_entry>>

(* project.c:222-226 : early hand during the wait: abort and return *)
FalseStart ==
    /\ pc = "wait"
    /\ t < g_random_wait_ms
    /\ \E out \in WaitSensorOutputs(t) : out # 0
    /\ state_to_abort
    /\ Return
    /\ UNCHANGED <<hw, calls,
                   g_difficulty, g_random_wait_ms, g_visual_ms, g_tactile_ms,
                   g_best_total_ms, g_round_ix, g_score_improved, uart,
                   best_at_entry>>

(* project.c:220, 231-236 : wait over: STIM_ON, visual_start_time = g_time *)
StimOn ==
    /\ pc = "wait"
    /\ ~(t < g_random_wait_ms)
    /\ g_state' = ST_STIM_ON
    /\ visual_start_time' = g_time
    /\ t' = g_time
    /\ pc' = "vis"
    /\ UNCHANGED <<hw, calls, wait_polls,
                   g_difficulty, g_random_wait_ms, g_visual_ms, g_tactile_ms,
                   g_best_total_ms, g_round_ix, g_time, g_score_improved,
                   tactile_start_time, total, uart, best_at_entry>>

(* project.c:236-246 : one iteration of the visual loop, sensor silent *)
VisTick ==
    /\ pc = "vis"
    /\ VisualLoopCond(t, visual_start_time)
    /\ 0 \in VisualSensorOutputs(t, Elapsed(t, visual_start_time))
    /\ g_time' = t
    /\ t' = t + 1
    /\ UNCHANGED <<pc, hw, calls, wait_polls,
                   g_state, g_difficulty, g_random_wait_ms, g_visual_ms,
                   g_tactile_ms, g_best_total_ms, g_round_ix, g_score_improved,
                   visual_start_time, tactile_start_time, total, uart,
                   best_at_entry>>

(* project.c:238-244 : the sensor fires: record the time, VIS_DONE, break *)
VisDetect ==
    /\ pc = "vis"
    /\ VisualLoopCond(t, visual_start_time)
    /\ \E out \in VisualSensorOutputs(t, Elapsed(t, visual_start_time)) : out # 0
    /\ g_visual_ms' = Elapsed(t, visual_start_time)
    /\ g_state' = ST_VIS_DONE
    /\ g_time' = t
    /\ pc' = "vis_check"
    /\ UNCHANGED <<hw, calls, wait_polls,
                   g_difficulty, g_random_wait_ms, g_tactile_ms,
                   g_best_total_ms, g_round_ix, g_score_improved, locals, uart,
                   best_at_entry>>

(* project.c:236 : the visual window is over, the loop ends *)
VisLoopEnd ==
    /\ pc = "vis"
    /\ ~VisualLoopCond(t, visual_start_time)
    /\ pc' = "vis_check"
    /\ UNCHANGED <<hw, calls, wait_polls, globals, locals, uart, best_at_entry>>

(* project.c:247-251 : if (g_state != ST_VIS_DONE) abort and return *)
VisAbort ==
    /\ pc = "vis_check"
    /\ g_state # ST_VIS_DONE
    /\ state_to_abort
    /\ Return
    /\ UNCHANGED <<hw, calls,
                   g_difficulty, g_random_wait_ms, g_visual_ms, g_tactile_ms,
                   g_best_total_ms, g_round_ix, g_score_improved, uart,
                   best_at_entry>>

(* project.c:247, 252-256 : show VIS, tactile_start_time = g_time *)
TactStart ==
    /\ pc = "vis_check"
    /\ ~(g_state # ST_VIS_DONE)
    /\ tactile_start_time' = g_time
    /\ t' = g_time
    /\ pc' = "tact"
    /\ UNCHANGED <<hw, calls, wait_polls,
                   globals, visual_start_time, total, uart, best_at_entry>>

(* project.c:256-268 : one iteration of the tactile loop, below threshold *)
TactTick ==
    /\ pc = "tact"
    /\ TactileLoopCond(t, tactile_start_time)
    /\ ~(pi3_read_pressure_adc(g_round_ix) >= PRESSURE_THRESHOLD)
    /\ g_time' = t
    /\ t' = t + 1
    /\ UNCHANGED <<pc, hw, calls, wait_polls,
                   g_state, g_difficulty, g_random_wait_ms, g_visual_ms,
                   g_tactile_ms, g_best_total_ms, g_round_ix, g_score_improved,
                   visual_start_time, tactile_start_time, total, uart,
                   best_at_entry>>

(* project.c:258-266 : adc >= PRESSURE_THRESHOLD: record, TACT_DONE, break *)
TactDetect ==
    /\ pc = "tact"
    /\ TactileLoopCond(t, tactile_start_time)
    /\ pi3_read_pressure_adc(g_round_ix) >= PRESSURE_THRESHOLD
    /\ g_tactile_ms' = Elapsed(t, tactile_start_time)
    /\ g_state' = ST_TACT_DONE
    /\ g_time' = t
    /\ pc' = "tact_check"
    /\ UNCHANGED <<hw, calls, wait_polls,
                   g_difficulty, g_random_wait_ms, g_visual_ms,
                   g_best_total_ms, g_round_ix, g_score_improved, locals, uart,
                   best_at_entry>>

(* project.c:256 : the tactile window is over, the loop ends *)
TactLoopEnd ==
    /\ pc = "tact"
    /\ ~TactileLoopCond(t, tactile_start_time)
    /\ pc' = "tact_check"
    /\ UNCHANGED <<hw, calls, wait_polls, globals, locals, uart, best_at_entry>>

(* project.c:269-274 : if (g_state != ST_TACT_DONE) abort and return *)
TactAbort ==
    /\ pc = "tact_check"
    /\ g_state # ST_TACT_DONE
    /\ state_to_abort
    /\ Return
    /\ UNCHANGED <<hw, calls,
                   g_difficulty, g_random_wait_ms, g_visual_ms, g_tactile_ms,
                   g_best_total_ms, g_round_ix, g_score_improved, uart,
                   best_at_entry>>

(* project.c:269, 276-283 : REPORT: total, best, flag, 7-seg and UART *)
Report ==
    /\ pc = "tact_check"
    /\ ~(g_state # ST_TACT_DONE)
    /\ g_state' = ST_REPORT
    /\ total' = Total(g_visual_ms, g_tactile_ms)
    /\ g_best_total_ms' = NewBest(total', g_best_total_ms)
    /\ g_score_improved' = ScoreImproved(total', g_best_total_ms)
    /\ uart' = [rnd |-> g_round_ix, wait_ms |-> g_random_wait_ms,
                vis_ms |-> g_visual_ms, tact_ms |-> g_tactile_ms,
                total_ms |-> total', best_ms |-> g_best_total_ms']
    /\ pc' = "report"
    /\ UNCHANGED <<hw, calls, wait_polls,
                   g_difficulty, g_random_wait_ms, g_visual_ms, g_tactile_ms,
                   g_round_ix, g_time, t, visual_start_time, tactile_start_time,
                   best_at_entry>>

(* project.c:286-291 : if (g_score_improved) state_to_feedback(); return *)
Feedback ==
    /\ pc = "report"
    /\ IF g_score_improved THEN state_to_feedback ELSE UNCHANGED g_state
    /\ Return
    /\ UNCHANGED <<hw, calls,
                   g_difficulty, g_random_wait_ms, g_visual_ms, g_tactile_ms,
                   g_best_total_ms, g_round_ix, g_time, g_score_improved, uart,
                   best_at_entry>>

(* ---------------- Specifications ---------------- *)

Next ==
    \/ MainBegin
    \/ MainCall
    \/ MainNext
    \/ MainExit
    \/ StateToIdle
    \/ Arm
    \/ WaitTick
    \/ FalseStart
    \/ StimOn
    \/ VisTick
    \/ VisDetect
    \/ VisLoopEnd
    \/ VisAbort
    \/ TactStart
    \/ TactTick
    \/ TactDetect
    \/ TactLoopEnd
    \/ TactAbort
    \/ Report
    \/ Feedback

(* run_one_round and main with the visual sensor as an input *)
Spec == Init /\ [][Next]_vars

(* The program as built: visual_sensor_output returns 0, so only these     *)
(* steps are ever taken.                                                   *)
NextStub ==
    \/ MainBegin
    \/ MainCall
    \/ MainNext
    \/ MainExit
    \/ StateToIdle
    \/ Arm
    \/ WaitTick
    \/ StimOn
    \/ VisTick
    \/ VisLoopEnd
    \/ VisAbort

SpecStub == InitStub /\ [][NextStub]_vars

(* The six rounds with rand() drawn from RandSamples; every round is cut   *)
(* short by an early hand on the first poll of the wait.                   *)
NextWait ==
    \/ MainBegin
    \/ MainCall
    \/ MainNext
    \/ MainExit
    \/ StateToIdle
    \/ ArmWide
    \/ FalseStart

SpecWait == Init /\ [][NextWait]_vars

(* ---------------- Properties ---------------- *)

(* The visual window ran out with no detection: the loop polled every tick *)
(* of the window and the program is at the test of line 247.               *)
VisualTimedOut ==
    /\ pc = "vis_check"
    /\ t - visual_start_time >= VISUAL_WINDOW_MS

(* The tactile window ran out with no detection (test of line 269). *)
TactileTimedOut ==
    /\ pc = "tact_check"
    /\ t - tactile_start_time >= TACTILE_WINDOW_MS

(* C1: a round that reached REPORT has entered FEEDBACK if and only if its *)
(* total is strictly less than the best total held before the round; a     *)
(* round whose total is not below the prior best returns in REPORT.        *)
C1_FeedbackIffImproved ==
    (pc = "returned" /\ g_state \in {ST_REPORT, ST_FEEDBACK}) =>
        /\ uart.rnd = g_round_ix
        /\ (g_state = ST_FEEDBACK <=> U32Less(uart.total_ms, best_at_entry))

(* C2: when the visual or the tactile window runs out with no detection,   *)
(* the round returns at once in ST_ABORT_RETRY, nothing is reported for    *)
(* the round, and the best total is the one held before the round.         *)
C2_TimeoutAborts ==
    [][ (VisualTimedOut \/ TactileTimedOut) =>
            /\ pc' = "returned"
            /\ g_state' = ST_ABORT_RETRY
            /\ g_best_total_ms' = best_at_entry
            /\ best_at_entry' = best_at_entry
            /\ total' = U32Of(0)
            /\ uart' = uart
            /\ uart.rnd # g_round_ix ]_vars

(* C2 witness: round 2 has returned in ABORT_RETRY after a visual time was *)
(* captured in it (g_visual_ms differs from the one round 1 reported), so  *)
(* it was the tactile window that ran out; the best of round 1 is kept.    *)
C2_Witness ==
    /\ pc = "returned"
    /\ g_state = ST_ABORT_RETRY
    /\ g_round_ix = 2
    /\ uart.rnd = 1
    /\ g_visual_ms # uart.vis_ms
    /\ g_best_total_ms = uart.best_ms
    /\ g_best_total_ms # UINT32_MAX

(* C3: a capture of zero duration is no detection: the program is never in *)
(* ST_VIS_DONE with a recorded visual time of 0, nor in ST_TACT_DONE with  *)
(* a recorded tactile time of 0.                                           *)
C3_ZeroCaptureIsTimeout ==
    /\ (g_state = ST_VIS_DONE => g_visual_ms # 0)
    /\ (g_state = ST_TACT_DONE => g_tactile_ms # 0)

(* C4: the best total starts at 0xFFFFFFFF, no step increases it, and when *)
(* run_one_round returns it is at most the value held at the call.         *)
C4_BestNonIncreasing ==
    /\ g_best_total_ms = UINT32_MAX
    /\ [][ /\ U32Leq(g_best_total_ms', g_best_total_ms)
           /\ (pc' = "returned" => U32Leq(g_best_total_ms', best_at_entry')) ]_vars

(* C4 witness: a round has returned with a best total strictly below the   *)
(* one it was called with, which was itself a reported total.              *)
C4_Witness ==
    /\ pc = "returned"
    /\ best_at_entry # UINT32_MAX
    /\ U32Less(g_best_total_ms, best_at_entry)

(* C5: in REPORT the total sent over the UART is the sum, without wrap, of *)
(* the visual and tactile times, and these are the times captured in this  *)
(* round: the ticks from the start of the visual window to the visual      *)
(* detection, and from there to the tactile detection.                     *)
C5_TotalIsSumOfThisRound ==
    pc = "report" =>
        /\ uart.rnd = g_round_ix
        /\ uart.vis_ms = g_visual_ms
        /\ uart.tact_ms = g_tactile_ms
        /\ uart.total_ms = total
        /\ (g_visual_ms + g_tactile_ms) \div 65536 < 65536
        /\ uart.total_ms = U32Of(g_visual_ms + g_tactile_ms)
        /\ g_visual_ms = tactile_start_time - visual_start_time
        /\ g_tactile_ms = g_time - tactile_start_time

(* C5 witness: round 3 or later is in REPORT with a visual time that is    *)
(* positive and differs from the one last captured before it could differ. *)
C5_Witness ==
    /\ pc = "report"
    /\ g_round_ix >= 3
    /\ g_visual_ms > 0

(* A step that returns from run_one_round. *)
RoundReturns == pc # "returned" /\ pc' = "returned"

(* C6 as stated: every round with index = 2 mod 5 passes the visual phase  *)
(* and times out on the tactile phase, that is, the round returns only     *)
(* from the tactile timeout, in ST_ABORT_RETRY.                            *)
C6_AlwaysTactileTimeout ==
    [][ (g_round_ix % 5 = 2 /\ RoundReturns) =>
            (TactileTimedOut /\ g_state' = ST_ABORT_RETRY) ]_vars

(* C6 as amended: every round with index = 2 mod 5 returns in              *)
(* ST_ABORT_RETRY; if it passes the visual phase, no tick of the tactile   *)
(* window detects (the reading is below PRESSURE_THRESHOLD, ST_TACT_DONE   *)
(* is not entered), the window runs out and the round aborts.              *)
C6_Round2EndsInAbort ==
    [][ g_round_ix % 5 = 2 =>
            /\ (RoundReturns => g_state' = ST_ABORT_RETRY)
            /\ (pc = "tact" =>
                    /\ pi3_read_pressure_adc(g_round_ix) < PRESSURE_THRESHOLD
                    /\ g_state' # ST_TACT_DONE
                    /\ g_tactile_ms' = g_tactile_ms
                    /\ (pc' = "tact_check" => TactileTimedOut'))
            /\ (pc = "tact_check" =>
                    /\ TactileTimedOut
                    /\ pc' = "returned") ]_vars

(* C6 witness: in round 2 the visual phase was passed and the tactile      *)
(* window has run out, all 1500 ticks polled.                              *)
C6_Witness ==
    /\ g_round_ix % 5 = 2
    /\ g_state = ST_VIS_DONE
    /\ TactileTimedOut
    /\ g_time = tactile_start_time + TACTILE_WINDOW_MS - 1

(* C7: when a round has gone through state_to_idle and the random wait is  *)
(* about to be set up, g_state is ST_IDLE and the elapsed time is 0.       *)
C7_RoundStartsReset ==
    pc = "idle" => (g_state = ST_IDLE /\ g_time = 0)

(* C8: a round whose visual (tactile) window ran out with no detection     *)
(* returns with g_visual_ms (g_tactile_ms) equal to 0.                     *)
C8_TimeoutLeavesSentinel ==
    [][ /\ (VisualTimedOut => (pc' = "returned" /\ g_visual_ms' = 0))
        /\ (TactileTimedOut => (pc' = "returned" /\ g_tactile_ms' = 0)) ]_vars

(* C9: in ST_VIS_DONE the recorded visual time is at most VISUAL_WINDOW_MS *)
(* and in ST_TACT_DONE the recorded tactile time is at most                *)
(* TACTILE_WINDOW_MS (the visual time still within its bound).             *)
C9_TimesWithinWindow ==
    /\ (g_state \in {ST_VIS_DONE, ST_TACT_DONE} =>
            (0 <= g_visual_ms /\ g_visual_ms <= VISUAL_WINDOW_MS))
    /\ (g_state = ST_TACT_DONE =>
            (0 <= g_tactile_ms /\ g_tactile_ms <= TACTILE_WINDOW_MS))

(* C9 witness: both detections happened, the visual one on the last tick   *)
(* of its window.                                                          *)
C9_Witness ==
    /\ g_state = ST_TACT_DONE
    /\ g_visual_ms = VISUAL_WINDOW_MS - 1

(* The order of the phases of a round. *)
PhaseOrder ==
    <<ST_IDLE, ST_ARMED, ST_STIM_ON, ST_VIS_DONE, ST_TACT_DONE, ST_REPORT,
      ST_FEEDBACK>>

NextPhase(a, b) ==
    \E i \in 1..(Len(PhaseOrder) - 1) : PhaseOrder[i] = a /\ PhaseOrder[i + 1] = b

(* C10: inside a round g_state only moves to the next phase of PhaseOrder  *)
(* or into ST_ABORT_RETRY, and it leaves ST_ABORT_RETRY and ST_FEEDBACK    *)
(* only when the next round begins, with state_to_idle.                    *)
C10_PhasesMonotonic ==
    [][ IF pc = "round"
        THEN g_state' = ST_IDLE
        ELSE \/ g_state' = g_state
             \/ /\ g_state # ST_ABORT_RETRY
                /\ (g_state' = ST_ABORT_RETRY \/ NextPhase(g_state, g_state')) ]_vars

(* C10 witness: a round after the first has gone through every phase up to *)
(* FEEDBACK and returned.                                                  *)
C10_Witness ==
    /\ pc = "returned"
    /\ g_state = ST_FEEDBACK
    /\ g_round_ix > 1

(* C11: when the wait loop is left before the random wait has elapsed (the *)
(* sensor fired in ARMED), that step returns from the round in             *)
(* ST_ABORT_RETRY, so STIM_ON is not entered; nothing is reported and the  *)
(* best total is the one held at the call; and after any return main goes  *)
(* on to the next round index.                                             *)
C11_FalseStartAborts ==
    [][ /\ (pc = "wait" /\ pc' # "wait" /\ t < g_random_wait_ms) =>
               /\ g_state = ST_ARMED
               /\ g_state' = ST_ABORT_RETRY
               /\ pc' = "returned"
               /\ g_best_total_ms' = best_at_entry
               /\ best_at_entry' = best_at_entry
               /\ uart' = uart
        /\ (pc = "returned" =>
               /\ pc' = "loop"
               /\ g_round_ix' = g_round_ix + 1
               /\ g_state' = g_state
               /\ g_best_total_ms' = g_best_total_ms) ]_vars

(* C11 witness: the wait loop is polling in ARMED, some ticks of the wait  *)
(* have elapsed, a best total is on record, and the sensor may fire here.  *)
C11_Witness ==
    /\ pc = "wait"
    /\ g_state = ST_ARMED
    /\ wait_polls > 0
    /\ t < g_random_wait_ms
    /\ g_best_total_ms # UINT32_MAX
    /\ ENABLED FalseStart

(* Ticks a polling loop at tick tt may still run before its bound. *)
TicksLeft(tt, bound) == IF tt < bound THEN bound - tt ELSE 0

(* An upper bound on the steps run_one_round can still take from here. *)
StepsLeftInRound ==
    CASE pc = "returned"   -> 1
      [] pc = "report"     -> 2
      [] pc = "tact_check" -> 3
      [] pc = "tact"       ->
            4 + TicksLeft(t, tactile_start_time + TACTILE_WINDOW_MS)
      [] pc = "vis_check"  -> 5 + TACTILE_WINDOW_MS
      [] pc = "vis"        ->
            6 + TACTILE_WINDOW_MS
              + TicksLeft(t, visual_start_time + VISUAL_WINDOW_MS)
      [] pc = "wait"       ->
            7 + TACTILE_WINDOW_MS + VISUAL_WINDOW_MS
              + TicksLeft(t, g_random_wait_ms)
      [] pc = "idle"       ->
            8 + TACTILE_WINDOW_MS + VISUAL_WINDOW_MS + RANDOM_WAIT_MAX_MS
      [] pc = "round"      ->
            9 + TACTILE_WINDOW_MS + VISUAL_WINDOW_MS + RANDOM_WAIT_MAX_MS
      [] pc = "loop"       ->
            10 + TACTILE_WINDOW_MS + VISUAL_WINDOW_MS + RANDOM_WAIT_MAX_MS
      [] OTHER             -> 0

(* An upper bound on the steps main can still take from here: the rounds   *)
(* not yet begun, each at its longest, and the rest of the current one.    *)
StepsLeft ==
    (LAST_ROUND + 1 - g_round_ix)
        * (11 + TACTILE_WINDOW_MS + VISUAL_WINDOW_MS + RANDOM_WAIT_MAX_MS)
      + StepsLeftInRound

(* C12: main terminates after exactly six calls of run_one_round: every    *)
(* step of the program strictly decreases the natural number StepsLeft,    *)
(* until main has returned there is always a next step that changes the    *)
(* state, main returns only with six calls made, and no polling loop runs  *)
(* past its bound (the random wait, the visual and the tactile window).    *)
C12_Terminates ==
    /\ [](/\ StepsLeft >= 0
          /\ (pc # "done" => ENABLED <<Next>>_vars)
          /\ (pc = "done" => (calls = LAST_ROUND /\ g_round_ix = LAST_ROUND + 1))
          /\ calls <= LAST_ROUND
          /\ wait_polls <= g_random_wait_ms
          /\ (pc = "wait" => t <= g_random_wait_ms \/ wait_polls = 0)
          /\ (pc = "vis" => t - visual_start_time <= VISUAL_WINDOW_MS)
          /\ (pc = "tact" => t - tactile_start_time <= TACTILE_WINDOW_MS))
    /\ [][StepsLeft' < StepsLeft]_vars

(* C12 witness: main has returned after six calls, the last of which went  *)
(* through all three polling loops and reported.                           *)
C12_Witness ==
    /\ pc = "done"
    /\ calls = LAST_ROUND
    /\ uart.rnd = LAST_ROUND

(* C13: g_round_ix changes only in main (at the loop's initialisation and *)
(* after a return, never inside run_one_round), each time by exactly one,  *)
(* and the k-th call of run_one_round is made with index k, k in 1..6.     *)
C13_RoundIndexCounts ==
    [][ /\ (g_round_ix' # g_round_ix =>
               /\ pc \in {"start", "returned"}
               /\ g_round_ix' = g_round_ix + 1)
        /\ (pc \notin {"start", "returned"} => g_round_ix' = g_round_ix)
        /\ ((pc = "loop" /\ pc' = "round") =>
               /\ g_round_ix' \in 1..LAST_ROUND
               /\ g_round_ix' = calls'
               /\ calls' = calls + 1) ]_vars

(* C13 witness: the sixth call of run_one_round is being made, index 6.    *)
C13_Witness ==
    /\ pc = "round"
    /\ calls = LAST_ROUND
    /\ g_round_ix = LAST_ROUND

(* C14: whenever the stimulus is on (ST_STIM_ON), the wait loop of this    *)
(* round has polled the sensor g_random_wait_ms times, and that is at      *)
(* least RANDOM_WAIT_MIN_MS.                                               *)
C14_FullWaitBeforeStimulus ==
    g_state = ST_STIM_ON =>
        /\ wait_polls = g_random_wait_ms
        /\ wait_polls >= RANDOM_WAIT_MIN_MS

(* The steps that need a detection: with visual_sensor_output as          *)
(* implemented none of them can be taken.                                  *)
DetectionStep ==
    \/ FalseStart
    \/ VisDetect
    \/ TactStart
    \/ TactTick
    \/ TactDetect
    \/ TactLoopEnd
    \/ TactAbort
    \/ Report
    \/ Feedback

(* C15: with visual_sensor_output as implemented, g_state only takes the   *)
(* values IDLE, ARMED, STIM_ON and ABORT_RETRY, g_score_improved stays     *)
(* false, the best total stays 0xFFFFFFFF up to the exit of main after six *)
(* calls, no step that needs a detection is ever possible, and every round *)
(* returns from the visual timeout, going from ST_STIM_ON (entered after   *)
(* the whole wait was polled in ST_ARMED) to ST_ABORT_RETRY.               *)
C15_StubAlwaysVisualTimeout ==
    /\ [](/\ hw = "stub"
          /\ g_state \in {ST_IDLE, ST_ARMED, ST_STIM_ON, ST_ABORT_RETRY}
          /\ g_score_improved = FALSE
          /\ g_best_total_ms = UINT32_MAX
          /\ uart.rnd = 0
          /\ ~ENABLED DetectionStep
          /\ (pc # "done" => ENABLED <<NextStub>>_vars)
          /\ (pc = "done" => calls = LAST_ROUND)
          /\ (g_state = ST_STIM_ON => wait_polls = g_random_wait_ms))
    /\ [][ RoundReturns =>
              /\ VisualTimedOut
              /\ g_state = ST_STIM_ON
              /\ g_state' = ST_ABORT_RETRY ]_vars

(* C15 witness: main has returned after six rounds, the last one aborted,  *)
(* with the best total still 0xFFFFFFFF.                                   *)
C15_Witness ==
    /\ hw = "stub"
    /\ pc = "done"
    /\ calls = LAST_ROUND
    /\ g_state = ST_ABORT_RETRY
    /\ g_best_total_ms = UINT32_MAX

(* C16: once ARMED has been entered (in this or an earlier round) the     *)
(* random wait returned by pi1_compute_random_wait_ms is between           *)
(* RANDOM_WAIT_MIN_MS and RANDOM_WAIT_MAX_MS inclusive, for every value of *)
(* rand() and every difficulty read.                                       *)
C16_WaitInRange ==
    (g_state # ST_IDLE \/ g_round_ix > 1) =>
        /\ RANDOM_WAIT_MIN_MS <= g_random_wait_ms
        /\ g_random_wait_ms <= RANDOM_WAIT_MAX_MS

(* C16 witness: ARMED with the longest wait, RANDOM_WAIT_MAX_MS.           *)
C16_Witness ==
    /\ g_state = ST_ARMED
    /\ pc = "wait"
    /\ g_random_wait_ms = RANDOM_WAIT_MAX_MS

(* C17: g_difficulty is always within 0..100, and from the first read of  *)
(* the pot on it is the value pi3_read_pot_difficulty gave in the current  *)
(* or the previous round, which is within 30..80.                          *)
C17_DifficultyInRange ==
    /\ 0 <= g_difficulty
    /\ g_difficulty <= 100
    /\ (pc \in {"wait", "vis", "vis_check", "tact", "tact_check", "report",
                "returned"} =>
            /\ g_difficulty = pi3_read_pot_difficulty(g_round_ix)
            /\ 30 <= g_difficulty
            /\ g_difficulty <= 80)
    /\ (g_round_ix > 1 => (30 <= g_difficulty /\ g_difficulty <= 80))

(* C17 witness: round 6 is armed with the difficulty read in it, 72.       *)
C17_Witness ==
    /\ g_state = ST_ARMED
    /\ g_round_ix = LAST_ROUND
    /\ g_difficulty = 72

(* C18: run_one_round always returns with g_state equal to ST_ABORT_RETRY, *)
(* ST_FEEDBACK or ST_REPORT, and g_state is never ST_TACT_TIMEOUT.         *)
C18_ReturnsInFinalState ==
    /\ (pc \in {"returned", "done"} =>
            g_state \in {ST_ABORT_RETRY, ST_FEEDBACK, ST_REPORT})
    /\ g_state # ST_TACT_TIMEOUT

(* C18 witness: the last round has returned aborted, the round before it   *)
(* having returned after its report.                                       *)
C18_Witness ==
    /\ pc = "returned"
    /\ g_round_ix = LAST_ROUND
    /\ g_state = ST_ABORT_RETRY
    /\ uart.rnd = LAST_ROUND - 1

=============================================================================
